---------------------------- MODULE Spec2Model ----------------------------
(***************************************************************************)
(* Model of src/app.py: the /analyze and /logs handlers of the phishing    *)
(* detection service, the scoring logic of analyze() and the history file  *)
(* kept by save_to_logs() and read by get_logs().                          *)
(*                                                                         *)
(* Units.  Percentages are floats in the program.  The model counts the    *)
(* classifier confidence and the running risk score in hundredths of a     *)
(* percentage point (50.00 is 5000) and the rounded final score in tenths  *)
(* (50.0 is 500), which is the resolution round(x, 1) produces.            *)
(*                                                                         *)
(* Strings.  A URL is a sequence of one-character strings, so that         *)
(* markupsafe.escape can be modelled by what it does to each character.    *)
(*                                                                         *)
(* Time.  datetime.now() formatted with %Y-%m-%d %H:%M:%S is a count of    *)
(* whole seconds, the variable now, which the environment advances.        *)
(***************************************************************************)
EXTENDS Integers, Sequences, FiniteSets, TLC

VARIABLES
    fileState,  \* scan_history.json: "absent", "corrupt" (exists, json.load raises) or "ok"
    logFile,    \* the list of records the file holds when fileState = "ok"
    now,        \* the wall clock, in seconds
    pc,         \* pc[p]: where request thread p is inside analyze()/save_to_logs()
    frame,      \* frame[p]: the local variables of thread p's analyze()/save_to_logs()
    overlapped, \* history: two threads have been between load and dump at the same time
    resp        \* the response most recently sent to a client

vars == <<fileState, logFile, now, pc, frame, overlapped, resp>>

(***************************************************************************)
(* Bounds of the model.                                                    *)
(***************************************************************************)
\* The clock runs from 0 to MaxTime seconds.
MaxTime == 2

\* Request threads that may be inside /analyze at the same time.
Procs == {1, 2}

(***************************************************************************)
(* markupsafe.escape                                                       *)
(***************************************************************************)
EscapeChar(c) ==
    CASE c = "&" -> <<"&", "a", "m", "p", ";">>
      [] c = "<" -> <<"&", "l", "t", ";">>
      [] c = ">" -> <<"&", "g", "t", ";">>
      [] c = "'" -> <<"&", "#", "3", "9", ";">>
      [] c = "\"" -> <<"&", "#", "3", "4", ";">>
      [] OTHER -> <<c>>

RECURSIVE Escape(_)
Escape(s) ==
    IF s = <<>> THEN <<>> ELSE EscapeChar(Head(s)) \o Escape(Tail(s))

(***************************************************************************)
(* get_domain_age                                                          *)
(*                                                                         *)
(* A WHOIS reply is what the environment answers for the lookup:           *)
(*   avail   whether `import whois` succeeded (WHOIS_AVAILABLE)            *)
(*   raises  whether whois.whois() raises                                  *)
(*   kind    the shape of w.creation_date: "none", "single" or "list"      *)
(*   days    (datetime.now() - d).days for each creation date d            *)
(* An age is [known, days]; known = FALSE is Python's None.                *)
(***************************************************************************)
NoAge == [known |-> FALSE, days |-> 0]

KnownAge(d) == [known |-> TRUE, days |-> d]

NoReply(avail, raises) ==
    [avail |-> avail, raises |-> raises, kind |-> "none", days |-> <<>>]

SingleReply(d) ==
    [avail |-> TRUE, raises |-> FALSE, kind |-> "single", days |-> <<d>>]

ListReply(ds) ==
    [avail |-> TRUE, raises |-> FALSE, kind |-> "list", days |-> ds]

get_domain_age(w) ==
    IF ~w.avail THEN NoAge
    ELSE IF w.raises THEN NoAge
    ELSE IF w.kind = "list"
         THEN IF w.days = <<>> THEN NoAge   \* creation_date[0] raises IndexError
              ELSE KnownAge(w.days[1])
    ELSE IF w.kind = "single" THEN KnownAge(w.days[1])
    ELSE NoAge

(***************************************************************************)
(* The scoring logic of analyze()                                          *)
(***************************************************************************)
\* reasons.append(...) for the classifier, lines 123-126
AiReason(ai_confidence) ==
    IF ai_confidence > 5000 THEN "ai_phishing" ELSE "ai_safe"

\* Faulty variant of AgeAdjustment: the new-domain band includes day 30.
AgeAdjustmentInclusive(age) ==
    IF age.known
    THEN IF age.days <= 30 THEN 1500
         ELSE IF age.days > 1000 THEN -1000
         ELSE 0
    ELSE 0

\* the change of risk_score made by lines 129-135
AgeAdjustment(age) ==
    IF age.known
    THEN IF age.days < 30 THEN 1500
         ELSE IF age.days > 1000 THEN -1000
         ELSE 0
    ELSE 0

\* the reasons appended by lines 129-135
AgeReasons(age) ==
    IF age.known
    THEN IF age.days < 30 THEN <<"new_domain">>
         ELSE IF age.days > 1000 THEN <<"established_domain">>
         ELSE <<>>
    ELSE <<>>

\* round(x, 1): x in hundredths, the results in tenths.  A float that prints
\* as a tie (x.x5) lies just above or just below it, or is an exact tie
\* rounded half to even, so a tie may go either way.
Round1(x) ==
    IF x % 10 = 5 THEN {x \div 10, (x \div 10) + 1}
    ELSE IF x % 10 < 5 THEN {x \div 10}
    ELSE {(x \div 10) + 1}

Min(a, b) == IF a <= b THEN a ELSE b

Max(a, b) == IF a >= b THEN a ELSE b

\* Faulty variant of Clamp: the upper limit is forgotten.
ClampNoUpper(r) == Max(0, r)

\* max(0, min(100, r)), in tenths
Clamp(r) == Max(0, Min(1000, r))

\* "danger" if final_score >= 50 else "safe"
StatusOf(final_score) == IF final_score >= 500 THEN "danger" ELSE "safe"

\* f"{age} days" if age else "Unknown": None and 0 are both falsy
AgeDisplay(age) ==
    IF age.known /\ age.days # 0
    THEN [text |-> "days", n |-> age.days]
    ELSE [text |-> "Unknown", n |-> 0]


(***************************************************************************)
(* Requests, frames and responses                                          *)
(*                                                                         *)
(* A request is the JSON body of POST /analyze together with what the      *)
(* external collaborators answer while it is served:                       *)
(*   hasUrl, url  the body's "url" member, when present                    *)
(*   modelOk      FALSE when the classifier cannot be used (phishing.pkl   *)
(*                was not loaded, or it has no class 'bad'): the call      *)
(*                raises                                                   *)
(*   conf         predict_proba's probability of 'bad', times 100          *)
(*   whois        the WHOIS reply                                          *)
(***************************************************************************)
Request(hasUrl, url, modelOk, conf, whois) ==
    [hasUrl |-> hasUrl, url |-> url, modelOk |-> modelOk, conf |-> conf,
     whois |-> whois]

NoRequest == Request(FALSE, <<>>, FALSE, 0, NoReply(FALSE, FALSE))

\* data.get('url', '')
UrlOf(r) == IF r.hasUrl THEN r.url ELSE <<>>

\* Faulty variant of UrlMissing: the empty-URL test is lost.
UrlMissingNever(r) == FALSE

\* `if not url`
UrlMissing(r) == UrlOf(r) = <<>>

\* The locals of analyze() and of its call of save_to_logs().  invoked is the
\* set of collaborators the handler has called so far.
EmptyFrame ==
    [req |-> NoRequest, age |-> NoAge, risk_score |-> 0, final_score |-> 0,
     status |-> "", reasons |-> <<>>, invoked |-> {}, logs |-> <<>>]

NoResponse ==
    [kind |-> "none", status |-> "", message |-> "", score |-> 0,
     reasons |-> <<>>, age |-> AgeDisplay(NoAge), good |-> <<>>, bad |-> <<>>]

\* jsonify({'status': 'error', 'message': ...})
ErrorResponse(message) ==
    [NoResponse EXCEPT !.kind = "analyze", !.status = "error", !.message = message]

\* jsonify({'status': ..., 'score': ..., 'reasons': ..., 'age': ...})
ScanResponse(f) ==
    [NoResponse EXCEPT !.kind = "analyze", !.status = f.status,
                       !.score = f.final_score, !.reasons = f.reasons,
                       !.age = AgeDisplay(f.age)]

\* jsonify({'good': ..., 'bad': ...})
LogsResponse(good, bad) ==
    [NoResponse EXCEPT !.kind = "logs", !.good = good, !.bad = bad]

\* get_logs() raised: the framework answers 500
ServerError == [NoResponse EXCEPT !.kind = "http500"]

\* Lines 102-140 of analyze() for a request that has a URL and a usable
\* classifier: the frames the scoring can end in (one, or two on a rounding tie).
Scored(r) ==
    LET age == get_domain_age(r.whois)
        risk == r.conf + AgeAdjustment(age)
    IN  { [EmptyFrame EXCEPT
              !.req = r, !.age = age, !.risk_score = risk,
              !.final_score = Clamp(rounded),
              !.status = StatusOf(Clamp(rounded)),
              !.reasons = <<AiReason(r.conf)>> \o AgeReasons(age),
              !.invoked = {"classifier", "whois"}] : rounded \in Round1(risk) }

(***************************************************************************)
(* save_to_logs and get_logs                                               *)
(***************************************************************************)
\* Faulty variant of LoadLogs: the file is never read back.
LoadLogsEmpty(fs, lf) == <<>>

\* lines 46-52: a missing or unparseable file loads as []
LoadLogs(fs, lf) == IF fs = "ok" THEN lf ELSE <<>>

\* the key save_to_logs compares and stores: str(escape(url))
LogKey(url) == Escape(url)

HasUrl(logs, key) == \E i \in 1..Len(logs) : logs[i].url = key

\* next((item for item in logs if item['url'] == key), None)
FirstIndex(logs, key) ==
    CHOOSE i \in 1..Len(logs) :
        /\ logs[i].url = key
        /\ \A j \in 1..(i - 1) : logs[j].url # key

\* Faulty variant of Upsert: every scan appends a record.
UpsertAppend(logs, url, status, score, t) ==
    Append(logs, [url |-> LogKey(url), status |-> status,
                  score |-> score, time |-> t])

\* Faulty variant of Upsert: a re-scan keeps the record's old time.
UpsertKeepTime(logs, url, status, score, t) ==
    IF HasUrl(logs, LogKey(url))
    THEN [logs EXCEPT ![FirstIndex(logs, LogKey(url))] =
             [@ EXCEPT !.status = status, !.score = score]]
    ELSE Append(logs, [url |-> LogKey(url), status |-> status,
                       score |-> score, time |-> t])

\* lines 55-71: update the existing record in place, or append a new one
Upsert(logs, url, status, score, t) ==
    IF HasUrl(logs, LogKey(url))
    THEN [logs EXCEPT ![FirstIndex(logs, LogKey(url))] =
             [@ EXCEPT !.status = status, !.score = score, !.time = t]]
    ELSE Append(logs, [url |-> LogKey(url), status |-> status,
                       score |-> score, time |-> t])

\* The bytes json.dump(logs, f, indent=4) writes.
ScoreLen(s) ==
    IF s = 0 THEN 1             \* max(0, ...) gave the int 0: "0"
    ELSE IF s = 1000 THEN 3     \* min(100, ...) gave the int 100: "100"
    ELSE IF s < 100 THEN 3      \* "d.d"
    ELSE 4                      \* "dd.d"

StatusLen(st) == IF st = "safe" THEN 4 ELSE 6

RecordLen(rec) == 109 + Len(rec.url) + StatusLen(rec.status) + ScoreLen(rec.score)

RECURSIVE RecordsLen(_)
RecordsLen(logs) ==
    IF logs = <<>> THEN 0 ELSE RecordLen(Head(logs)) + RecordsLen(Tail(logs))

JsonLen(logs) ==
    IF logs = <<>> THEN 2
    ELSE 2 + RecordsLen(logs) + 2 * (Len(logs) - 1) + 2

RECURSIVE Reverse(_)
Reverse(s) == IF s = <<>> THEN <<>> ELSE Append(Reverse(Tail(s)), Head(s))

IsSafe(rec) == rec.status = "safe"

IsNotSafe(rec) == rec.status # "safe"

\* Faulty variant of Buckets: data.reverse() is missing.
BucketsUnreversed(data) ==
    LogsResponse(SelectSeq(data, IsSafe), SelectSeq(data, IsNotSafe))

\* lines 89-93 of get_logs: data.reverse(), then the two comprehensions
Buckets(data) ==
    LET reversed == Reverse(data)
    IN  LogsResponse(SelectSeq(reversed, IsSafe), SelectSeq(reversed, IsNotSafe))

(***************************************************************************)
(* The inputs the specifications draw from                                 *)
(***************************************************************************)
\* "a", "<" and "&lt;": the escape of the second is the third, unescaped
SeqUrls == {<<"a">>, <<"<">>, <<"&", "l", "t", ";">>}

\* a body without "url", and one whose "url" is the empty string
EmptyRequests ==
    {Request(h, <<>>, TRUE, 0, NoReply(FALSE, FALSE)) : h \in BOOLEAN}

\* a request served while the classifier cannot be used
BrokenRequests == {Request(TRUE, <<"a">>, FALSE, 0, NoReply(FALSE, FALSE))}

SeqRequests ==
    EmptyRequests \cup BrokenRequests \cup
    {Request(TRUE, u, TRUE, c, w) :
        u \in SeqUrls, c \in {1000, 9000}, w \in {SingleReply(500)}}

ConcRequests ==
    EmptyRequests \cup
    {Request(TRUE, u, TRUE, c, NoReply(FALSE, FALSE)) :
        u \in {<<"a">>, <<"<">>}, c \in {1000, 9000}}

\* the ages the WHOIS lookup is made to report when scoring is checked
AgeDays == {-1, 0, 1, 29, 30, 31, 500, 999, 1000, 1001, 4000}

WhoisReplies ==
    {NoReply(FALSE, FALSE), NoReply(TRUE, TRUE), NoReply(TRUE, FALSE)}
    \cup {SingleReply(d) : d \in AgeDays}
    \cup {ListReply(ds) : ds \in {<<>>, <<29, 4000>>, <<1001, 0>>}}

\* every confidence from 0.00 to 100.00
Confidences == 0..10000

(***************************************************************************)
(* The state after start-up: no history file, no request served            *)
(***************************************************************************)
Init ==
    /\ fileState = "absent"
    /\ logFile = <<>>
    /\ now = 0
    /\ pc = [p \in Procs |-> "idle"]
    /\ frame = [p \in Procs |-> EmptyFrame]
    /\ overlapped = FALSE
    /\ resp = NoResponse

(***************************************************************************)
(* POST /analyze, served from start to end by thread p                     *)
(***************************************************************************)
\* line 100: no URL
Reject(p, r) ==
    /\ UrlMissing(r)
    /\ frame' = [frame EXCEPT ![p] = [EmptyFrame EXCEPT !.req = r]]
    /\ resp' = ErrorResponse("Empty URL")
    /\ UNCHANGED <<fileState, logFile, now, overlapped>>

\* lines 103-112 raise, lines 150-151 answer
Crash(p, r) ==
    /\ ~UrlMissing(r)
    /\ ~r.modelOk
    /\ frame' = [frame EXCEPT ![p] =
                    [EmptyFrame EXCEPT !.req = r, !.invoked = {"classifier"}]]
    /\ resp' = ErrorResponse("exception")
    /\ UNCHANGED <<fileState, logFile, now, overlapped>>

\* lines 102-149: score, save_to_logs, answer
Scan(p, r) ==
    /\ ~UrlMissing(r)
    /\ r.modelOk
    /\ \E f \in Scored(r) :
          LET logs == Upsert(LoadLogs(fileState, logFile), UrlOf(r),
                             f.status, f.final_score, now)
          IN  /\ frame' = [frame EXCEPT ![p] =
                              [f EXCEPT !.logs = logs,
                                        !.invoked = @ \cup {"upsert"}]]
              /\ fileState' = "ok"
              /\ logFile' = logs
              /\ resp' = ScanResponse(f)
    /\ UNCHANGED <<now, overlapped>>

Handle(p, r) == Reject(p, r) \/ Crash(p, r) \/ Scan(p, r)

Analyze == \E r \in SeqRequests : Handle(1, r) /\ UNCHANGED pc

(***************************************************************************)
(* GET /logs                                                               *)
(***************************************************************************)
GetLogs ==
    /\ resp' = IF fileState = "absent" THEN LogsResponse(<<>>, <<>>)
               ELSE IF fileState = "corrupt" THEN ServerError
               ELSE Buckets(logFile)
    /\ UNCHANGED <<fileState, logFile, now, pc, frame, overlapped>>

(***************************************************************************)
(* The clock                                                               *)
(***************************************************************************)
Tick ==
    /\ now < MaxTime
    /\ now' = now + 1
    /\ UNCHANGED <<fileState, logFile, pc, frame, overlapped, resp>>

(***************************************************************************)
(* Spec: the handlers run one at a time                                    *)
(***************************************************************************)
Next == Analyze \/ GetLogs \/ Tick

Spec == Init /\ [][Next]_vars

(***************************************************************************)
(* SpecScore: one request, drawn from every confidence and every WHOIS     *)
(* reply, is served on a fresh installation                                *)
(***************************************************************************)
InitScore ==
    /\ fileState = "absent"
    /\ logFile = <<>>
    /\ now = 0
    /\ pc = [p \in Procs |-> IF p = 1 THEN "received" ELSE "idle"]
    /\ \E r \in EmptyRequests \cup BrokenRequests
                \cup {Request(TRUE, <<"a">>, TRUE, c, w) :
                         c \in Confidences, w \in WhoisReplies} :
          frame = [p \in Procs |-> IF p = 1 THEN [EmptyFrame EXCEPT !.req = r]
                                   ELSE EmptyFrame]
    /\ overlapped = FALSE
    /\ resp = NoResponse

Serve ==
    /\ pc[1] = "received"
    /\ Handle(1, frame[1].req)
    /\ pc' = [pc EXCEPT ![1] = "idle"]

NextScore == Serve

SpecScore == InitScore /\ [][NextScore]_vars

(***************************************************************************)
(* SpecConc: two request threads inside /analyze at once.  save_to_logs    *)
(* takes no lock, so its steps interleave: the load (lines 46-52), the     *)
(* change of the loaded list (55-71), open(LOG_FILE, 'w'), which empties   *)
(* the file (74), and the dump, which the buffered file writes out when    *)
(* the with-block closes it (75).  The clock stands still: the scans fall  *)
(* within one second.                                                      *)
(***************************************************************************)
\* Thread p is inside the read-modify-write of save_to_logs: it has loaded
\* the file and has not yet written it back.
InSection(p) == pc[p] \in {"modify", "open", "dump"}

\* lines 97-140
Begin(p) ==
    /\ pc[p] = "idle"
    /\ \E r \in ConcRequests :
          \/ Reject(p, r) /\ UNCHANGED pc
          \/ /\ ~UrlMissing(r)
             /\ r.modelOk
             /\ \E f \in Scored(r) : frame' = [frame EXCEPT ![p] = f]
             /\ pc' = [pc EXCEPT ![p] = "load"]
             /\ UNCHANGED <<fileState, logFile, now, overlapped, resp>>

\* lines 46-52
Load(p) ==
    /\ pc[p] = "load"
    /\ frame' = [frame EXCEPT ![p].logs = LoadLogs(fileState, logFile),
                              ![p].invoked = @ \cup {"upsert"}]
    /\ overlapped' = (overlapped \/ \E q \in Procs \ {p} : InSection(q))
    /\ pc' = [pc EXCEPT ![p] = "modify"]
    /\ UNCHANGED <<fileState, logFile, now, resp>>

\* lines 55-71
Modify(p) ==
    /\ pc[p] = "modify"
    /\ frame' = [frame EXCEPT ![p].logs =
                    Upsert(@, UrlOf(frame[p].req), frame[p].status,
                           frame[p].final_score, now)]
    /\ pc' = [pc EXCEPT ![p] = "open"]
    /\ UNCHANGED <<fileState, logFile, now, overlapped, resp>>

\* line 74: opening for writing truncates the file to zero bytes
Open(p) ==
    /\ pc[p] = "open"
    /\ fileState' = "corrupt"
    /\ logFile' = <<>>
    /\ pc' = [pc EXCEPT ![p] = "dump"]
    /\ UNCHANGED <<now, frame, overlapped, resp>>

\* line 75: the bytes go to offset 0 of the file.  When another thread's dump
\* landed since this thread truncated the file, they overwrite its beginning:
\* if it was longer its tail stays behind the closing bracket, and json.load
\* raises on the extra data.
Dump(p) ==
    /\ pc[p] = "dump"
    /\ IF fileState = "ok" /\ JsonLen(frame[p].logs) < JsonLen(logFile)
       THEN fileState' = "corrupt" /\ logFile' = <<>>
       ELSE fileState' = "ok" /\ logFile' = frame[p].logs
    /\ pc' = [pc EXCEPT ![p] = "done"]
    /\ UNCHANGED <<now, frame, overlapped, resp>>

\* lines 144-149
Return(p) ==
    /\ pc[p] = "done"
    /\ resp' = ScanResponse(frame[p])
    /\ pc' = [pc EXCEPT ![p] = "idle"]
    /\ UNCHANGED <<fileState, logFile, now, frame, overlapped>>

Thread(p) == Begin(p) \/ Load(p) \/ Modify(p) \/ Open(p) \/ Dump(p) \/ Return(p)

NextConc == (\E p \in Procs : Thread(p)) \/ GetLogs

SpecConc == Init /\ [][NextConc]_vars

(***************************************************************************)
(* Properties                                                              *)
(***************************************************************************)
\* The last response is a successful scan result.
Scanned == resp.kind = "analyze" /\ resp.status # "error"

\* The records of logs whose url is key.
Matches(logs, key) == {i \in 1..Len(logs) : logs[i].url = key}

\* C1: the persisted history never holds two records with the same escaped
\* url, whether scans run one after the other or with the load, change,
\* truncate and dump steps of two scans interleaved.
C1_UniqueUrls ==
    fileState = "ok" =>
        \A i, j \in 1..Len(logFile) :
            logFile[i].url = logFile[j].url => i = j

\* Two scans of the same URL overlapped, both have written, and the file
\* holds that URL once.
C1_Witness ==
    /\ pc[1] = "done" /\ pc[2] = "done"
    /\ frame[1].req.url = <<"<">> /\ frame[2].req.url = <<"<">>
    /\ overlapped
    /\ fileState = "ok"
    /\ Cardinality(Matches(logFile, Escape(<<"<">>))) = 1

\* C2: whatever the confidence in [0, 100] and whatever the domain age, the
\* score a scan returns and stores lies in [0, 100], and the status is
\* "danger" exactly when that score is at least 50, "safe" otherwise.
C2_ScoreClampedStatusMatches ==
    Scanned =>
        /\ resp.score >= 0 /\ resp.score <= 1000
        /\ resp.status \in {"safe", "danger"}
        /\ resp.status = "danger" <=> resp.score >= 500
        /\ fileState = "ok"
        /\ \E i \in 1..Len(logFile) :
              /\ logFile[i].url = Escape(frame[1].req.url)
              /\ logFile[i].score = resp.score
              /\ logFile[i].status = resp.status

\* A scan whose risk score exceeded 100 before the clamp.
C2_Witness ==
    /\ Scanned
    /\ frame[1].risk_score > 10000
    /\ resp.score = 1000
    /\ resp.status = "danger"

\* C3: the age adjustment added to the classifier confidence before the
\* clamp is +15 for a known age below 30 days, -10 for a known age above
\* 1000 days and 0 otherwise (unknown age, or 30 <= age <= 1000); a domain
\* reason is appended exactly when the adjustment is not 0.
C3_AgeAdjustment ==
    Scanned =>
        LET age == frame[1].age
            adjustment == frame[1].risk_score - frame[1].req.conf
            domainReasons ==
                SelectSeq(resp.reasons,
                          LAMBDA x : x \in {"new_domain", "established_domain"})
        IN  /\ (age.known /\ age.days < 30) => adjustment = 1500
            /\ (age.known /\ age.days > 1000) => adjustment = -1000
            /\ (~age.known \/ (age.days >= 30 /\ age.days <= 1000))
                   => adjustment = 0
            /\ Len(domainReasons) = (IF adjustment # 0 THEN 1 ELSE 0)
            /\ Len(resp.reasons) = 1 + Len(domainReasons)

\* A scan of a domain exactly 30 days old: no adjustment, one reason.
C3_Witness ==
    /\ Scanned
    /\ frame[1].age = KnownAge(30)
    /\ frame[1].risk_score = frame[1].req.conf
    /\ Len(resp.reasons) = 1

\* C4: a scan of a URL whose escaped form is already in the log updates that
\* one record in place: the log keeps its length, the record carries the
\* status, score and time of this scan, it is the only record of that URL,
\* and every other record keeps its content and position.
C4_UpdateInPlace ==
    [][\A r \in SeqRequests :
          LET key == Escape(r.url)
          IN  ( /\ r.hasUrl /\ r.url # <<>> /\ r.modelOk
                /\ fileState = "ok"
                /\ \E i \in 1..Len(logFile) : logFile[i].url = key
                /\ Handle(1, r) )
              => /\ fileState' = "ok"
                 /\ Len(logFile') = Len(logFile)
                 /\ Cardinality(Matches(logFile', key)) = 1
                 /\ \A i \in 1..Len(logFile) :
                       IF logFile[i].url = key
                       THEN logFile'[i] = [url |-> key, status |-> resp'.status,
                                           score |-> resp'.score, time |-> now]
                       ELSE logFile'[i] = logFile[i]
                 /\ resp'.status \in {"safe", "danger"}
      ]_vars

\* The first of two records was scanned again after the second was added:
\* it is still first, and carries the later time and the new result.
C4_Witness ==
    /\ Scanned
    /\ fileState = "ok"
    /\ Len(logFile) = 2
    /\ logFile[1].url = Escape(frame[1].req.url)
    /\ logFile[1].time > logFile[2].time
    /\ logFile[1].status = resp.status
    /\ logFile[1].score = resp.score

\* C5: a scan request whose url is empty or missing is answered with
\* {status: "error", message: "Empty URL"}, leaves the history file as it
\* was, and calls neither the classifier, nor the domain lookup, nor the
\* upsert.
C5_EmptyUrlRejected ==
    [][\A r \in SeqRequests :
          ((~r.hasUrl \/ r.url = <<>>) /\ Handle(1, r))
          => /\ resp' = ErrorResponse("Empty URL")
             /\ fileState' = fileState
             /\ logFile' = logFile
             /\ frame'[1].invoked = {}
      ]_vars

\* An empty request was rejected while the log held records.
C5_Witness ==
    /\ resp = ErrorResponse("Empty URL")
    /\ frame[1].req \in EmptyRequests
    /\ frame[1].invoked = {}
    /\ fileState = "ok"
    /\ Len(logFile) = 2

\* C6: a history file that is missing or unparseable is treated as an empty
\* log by every operation that loads it: GET /logs answers two empty
\* buckets, the upsert goes on from an empty list, and the read failure is
\* never surfaced.
C6_UnreadableFileIsEmptyLog ==
    [][fileState # "ok" =>
          /\ GetLogs => resp' = LogsResponse(<<>>, <<>>)
          /\ \A p \in Procs : Load(p) => frame'[p].logs = <<>>
      ]_vars

\* C7: GET /logs returns each bucket most recent first: of two records in one
\* bucket, the one scanned (or re-scanned) later, that is the one with the
\* later time, comes first.
C7_MostRecentFirst ==
    resp.kind = "logs" =>
        /\ \A i, j \in 1..Len(resp.good) :
              resp.good[i].time > resp.good[j].time => i < j
        /\ \A i, j \in 1..Len(resp.bad) :
              resp.bad[i].time > resp.bad[j].time => i < j

\* C8: GET /logs partitions the whole log: good holds exactly the records
\* whose status is "safe", bad exactly the others, each bucket in the reverse
\* of the log's order, and the log itself is left as it was.
C8_Partition ==
    [][resp'.kind = "logs" =>
          LET safe == SelectSeq(logFile, LAMBDA x : x.status = "safe")
              other == SelectSeq(logFile, LAMBDA x : x.status # "safe")
          IN  /\ fileState' = fileState
              /\ logFile' = logFile
              /\ Len(resp'.good) = Len(safe)
              /\ \A i \in 1..Len(safe) : resp'.good[i] = safe[Len(safe) + 1 - i]
              /\ Len(resp'.bad) = Len(other)
              /\ \A i \in 1..Len(other) : resp'.bad[i] = other[Len(other) + 1 - i]
              /\ Len(resp'.good) + Len(resp'.bad) = Len(logFile)
      ]_vars

\* X (safe), Y (danger), Z (safe) were scanned in that order and listed:
\* good = [Z, X], bad = [Y].
C8_Witness ==
    /\ resp.kind = "logs"
    /\ fileState = "ok"
    /\ Len(logFile) = 3
    /\ logFile[1].status = "safe"
    /\ logFile[2].status = "danger"
    /\ logFile[3].status = "safe"
    /\ resp.good = <<logFile[3], logFile[1]>>
    /\ resp.bad = <<logFile[2]>>

\* C9: a successful scan response shows the age as "<N> days" whenever the
\* lookup returned a known age of N days, N = 0 included, and as "Unknown"
\* exactly when the lookup returned no age.
C9_AgeDisplayed ==
    Scanned =>
        /\ frame[1].age.known =>
              resp.age = [text |-> "days", n |-> frame[1].age.days]
        /\ resp.age.text = "Unknown" <=> ~frame[1].age.known

\* C10: the read-modify-write of save_to_logs is not atomic.  Two scans of
\* different URLs that have both written leave both records in the file when
\* the scans ran one after the other; when their steps interleave, one of
\* the two records can be lost.
C10_SerialKeepsBoth ==
    \A p, q \in Procs :
        ( /\ p # q
          /\ pc[p] = "done" /\ pc[q] = "done"
          /\ frame[p].req.url # frame[q].req.url
          /\ ~overlapped )
        => /\ fileState = "ok"
           /\ \E i \in 1..Len(logFile) : logFile[i].url = Escape(frame[p].req.url)
           /\ \E i \in 1..Len(logFile) : logFile[i].url = Escape(frame[q].req.url)

\* The lost update: both scans loaded the empty log before either wrote, both
\* have written, for different URLs, and the file holds a record for only
\* one of them.
C10_Witness ==
    /\ pc[1] = "done" /\ pc[2] = "done"
    /\ frame[1].req.url # frame[2].req.url
    /\ fileState = "ok"
    /\ Len(logFile) = 1
    /\ logFile[1].url = Escape(frame[2].req.url)
    /\ Len(frame[1].logs) = 1 /\ Len(frame[2].logs) = 1
    /\ overlapped

=============================================================================
